---- MODULE Spec2Model ----
(***************************************************************************)
(* Model of the example-retrieval subsystem of the TMF921 dataset          *)
(* generator: the index builder (src/src/rag/build_vector_db.py), the      *)
(* retriever with its three selection strategies                           *)
(* (src/src/rag/rag_retriever.py) and the strategy dispatch of the         *)
(* translator (src/src/rag/rag_translator.py).                             *)
(*                                                                         *)
(* Numbers.  Embedding vectors are plane vectors given in polar form, a    *)
(* direction that is a multiple of 60 degrees and an integer length, so    *)
(* that the squared L2 distance and twice the cosine are integers and all  *)
(* scores are exact rationals.  lambda_mult and keyword_weight are kept    *)
(* in tenths (0, 5, 10 for 0.0, 0.5, 1.0).  A float NaN is the record NaN; *)
(* every comparison with it is false, as in IEEE arithmetic.  Rounding of  *)
(* floats is not modelled.                                                 *)
(***************************************************************************)
EXTENDS Integers, Sequences, FiniteSets, TLC

VARIABLES index, retriever, translator, pc, last, built, builder, threads

vars == <<index, retriever, translator, pc, last, built, builder, threads>>

----------------------------------------------------------------------------
(* Bounds of the model *)

MaxCorpus == 3

MaxK == 3

\* longest corpus of a rebuild that runs while readers query
MaxRebuild == 1

\* size of the corpora and largest k of the prompt-formatting runs
MaxPrompt == 4

(* Program constants *)

DefaultFetchK == 20

DefaultLambdaMult == 5

DefaultKeywordWeight == 3

\* default max_examples of format_examples_for_prompt
DefaultMaxExamples == 3

\* number of examples build_rag_prompt takes, the bound of its slice
PromptExamples == 3

----------------------------------------------------------------------------
(* Small helpers *)

Min(a, b) == IF a <= b THEN a ELSE b

Range(s) == {s[i] : i \in 1..Len(s)}

Prefix(s, n) == SubSeq(s, 1, Min(n, Len(s)))

----------------------------------------------------------------------------
(* Texts, tokens and the embedding provider *)

\* A text is its sequence of whitespace-separated words.
Texts ==
    { <<"deploy", "slice">>,
      <<"Deploy", "slice", "robots">>,
      <<"stream", "video">>,
      <<>> }

\* str.lower() on one word
Lower(w) == IF w = "Deploy" THEN "deploy" ELSE w

\* set(text.lower().split())
Keywords(text) == {Lower(text[i]) : i \in 1..Len(text)}

Vec(d, l) == [dir |-> d, len |-> l]

\* SentenceTransformer.encode of one text: deterministic, opaque
Encode(text) ==
    CASE text = <<"deploy", "slice">>           -> Vec(0, 1)
      [] text = <<"Deploy", "slice", "robots">> -> Vec(1, 3)
      [] text = <<"stream", "video">>           -> Vec(3, 1)
      [] OTHER                                  -> Vec(0, 0)

\* the embedding_model parameter: the default of both the builder and the
\* retriever, and another model of the same dimension
DefaultModel == "all-mpnet-base-v2"

Models == {DefaultModel, "all-distilroberta-v1"}

\* SentenceTransformer(embedding_model).encode of one text; different models
\* place the same text at different points
EncodeWith(embedding_model, text) ==
    IF embedding_model = DefaultModel THEN Encode(text)
    ELSE Vec(IF Encode(text).len = 0 THEN 0 ELSE (Encode(text).dir + 2) % 6,
             Encode(text).len)

\* twice the cosine of a multiple of 60 degrees
TwoCos(steps) ==
    CASE steps % 6 = 0 -> 2
      [] steps % 6 = 1 -> 1
      [] steps % 6 = 2 -> -1
      [] steps % 6 = 3 -> -2
      [] steps % 6 = 4 -> -1
      [] OTHER         -> 1

\* squared Euclidean distance, the default space of a chroma collection
L2(a, b) == a.len * a.len + b.len * b.len
            - a.len * b.len * TwoCos(a.dir - b.dir + 6)

NaN == [nan |-> TRUE, v |-> 0]

Num(x) == [nan |-> FALSE, v |-> x]

\* variant: a >= b
GtOrEqual(a, b) == ~a.nan /\ ~b.nan /\ a.v >= b.v

\* float comparison a > b
Gt(a, b) == ~a.nan /\ ~b.nan /\ a.v > b.v

\* twice np.dot(a, b) / (norm(a) * norm(b)); 0/0 is NaN for a zero vector
CosineSimilarity(a, b) ==
    IF a.len = 0 \/ b.len = 0 THEN NaN ELSE Num(TwoCos(a.dir - b.dir + 6))

----------------------------------------------------------------------------
(* Corpus records and their payload *)

\* the structured output of a record, an opaque JSON document
\* JSON values as json.load produces them: strings (sequences of characters,
\* a run of plain letters counting as one), integers, the literals null, true
\* and false, lists, and dicts as sequences of <<key, value>> in insertion
\* order
JStr(chars) == [t |-> "str", v |-> chars]

JInt(n) == [t |-> "int", v |-> n]

JLit(name) == [t |-> "lit", v |-> name]

JArr(items) == [t |-> "arr", v |-> items]

JObj(members) == [t |-> "obj", v |-> members]

\* the tmf921_intent of the record with the given user intent
PayloadOf(text) ==
    JObj(<< <<(<<"name">>), JStr(<<"Intent">>)>>,
            <<(<<"description">>), JStr(text)>> >>)

\* Intent documents of other shapes: an expression with quotes, a backslash,
\* a line break and a non-ASCII character; nested lists and dicts with
\* numbers and null; empty containers and an empty string
IntentDocs ==
    << JObj(<< <<(<<"name">>), JStr(<<"Intent">>)>>,
               <<(<<"expression">>),
                 JObj(<< <<(<<"expressionValue">>),
                           JStr(<<"icm:target", "\"", "slice", "\"", "\n",
                                  "\\", "U+00E9", "u">>)>> >>)>> >>),
       JObj(<< <<(<<"name">>), JStr(<<>>)>>,
               <<(<<"version">>), JInt(10)>>,
               <<(<<"expectation">>),
                 JArr(<<JObj(<< <<(<<"latency">>), JInt(-205)>> >>),
                        JArr(<<JInt(0), JLit("null")>>)>>)>> >>),
       JObj(<< <<(<<"isBundle">>), JLit("false")>>,
               <<(<<"characteristic">>), JArr(<<>>)>>,
               <<(<<"validFor">>), JObj(<<>>)>> >>) >>

Records == {[user_intent |-> t, tmf921_intent |-> PayloadOf(t)] : t \in Texts}

Corpora == UNION {[1..n -> Records] : n \in 0..MaxCorpus}

DigitChars == <<"0", "1", "2", "3", "4", "5", "6", "7", "8", "9">>

DigitValue(c) == (CHOOSE d \in 1..10 : DigitChars[d] = c) - 1

RECURSIVE Digits(_)
\* the decimal digits of a natural number
Digits(n) ==
    IF n < 10 THEN <<DigitChars[n + 1]>>
    ELSE Append(Digits(n \div 10), DigitChars[(n % 10) + 1])

\* variant: characters are written as they are
EscapeCharRaw(c) == <<c>>

\* json.dumps escapes of one character (ensure_ascii is on by default)
EscapeChar(c) ==
    CASE c = "\"" -> <<"\\", "\"">>
      [] c = "\\" -> <<"\\", "\\">>
      [] c = "\n" -> <<"\\", "n">>
      [] c = "U+00E9" -> <<"\\", "u", "00e9">>
      [] OTHER -> <<c>>

\* json.loads of the character after a backslash
Unescape(c) == IF c = "n" THEN "\n" ELSE c

\* json.loads of the four hex digits after \u
Unicode(hex) == IF hex = "00e9" THEN "U+00E9" ELSE hex

RECURSIVE EncodeChars(_)
EncodeChars(chars) ==
    IF chars = <<>> THEN <<>>
    ELSE EscapeChar(Head(chars)) \o EncodeChars(Tail(chars))

EncodeString(chars) == <<"\"">> \o EncodeChars(chars) \o <<"\"">>

RECURSIVE JsonDumps(_), DumpItems(_), DumpMembers(_)
\* json.dumps of a payload: the characters of the stored JSON string, with
\* the default separators ", " and ": "
JsonDumps(obj) ==
    CASE obj.t = "str" -> EncodeString(obj.v)
      [] obj.t = "int" ->
            IF obj.v < 0 THEN <<"-">> \o Digits(-obj.v) ELSE Digits(obj.v)
      [] obj.t = "lit" -> <<obj.v>>
      [] obj.t = "arr" -> <<"[">> \o DumpItems(obj.v) \o <<"]">>
      [] obj.t = "obj" -> <<"{">> \o DumpMembers(obj.v) \o <<"}">>

DumpItems(items) ==
    IF items = <<>> THEN <<>>
    ELSE JsonDumps(Head(items))
            \o (IF Len(items) > 1 THEN <<",", " ">> \o DumpItems(Tail(items))
                ELSE <<>>)

DumpMembers(members) ==
    IF members = <<>> THEN <<>>
    ELSE EncodeString(Head(members)[1]) \o <<":", " ">>
            \o JsonDumps(Head(members)[2])
            \o (IF Len(members) > 1 THEN <<",", " ">> \o DumpMembers(Tail(members))
                ELSE <<>>)

\* the character at position i of a JSON string, and the end of the string
At(str, i) == IF i <= Len(str) THEN str[i] ELSE "EOF"

SkipSpace(str, i) == IF At(str, i) = " " THEN i + 1 ELSE i

RECURSIVE ScanString(_, _, _), ScanDigits(_, _, _), ScanValue(_, _)
RECURSIVE ScanItems(_, _, _), ScanMembers(_, _, _)
\* the scanners of json.loads: each starts at position i and gives the value
\* read and the position after it
ScanString(str, i, acc) ==
    IF At(str, i) \in {"\"", "EOF"} THEN [v |-> acc, i |-> i + 1]
    ELSE IF str[i] = "\\"
         THEN IF At(str, i + 1) = "u"
              THEN ScanString(str, i + 3, Append(acc, Unicode(At(str, i + 2))))
              ELSE ScanString(str, i + 2, Append(acc, Unescape(At(str, i + 1))))
    ELSE ScanString(str, i + 1, Append(acc, str[i]))

ScanDigits(str, i, acc) ==
    IF At(str, i) \in Range(DigitChars)
    THEN ScanDigits(str, i + 1, acc * 10 + DigitValue(str[i]))
    ELSE [v |-> acc, i |-> i]

ScanValue(str, i) ==
    CASE At(str, i) = "\"" ->
            LET r == ScanString(str, i + 1, <<>>) IN [v |-> JStr(r.v), i |-> r.i]
      [] At(str, i) = "[" ->
            IF At(str, i + 1) = "]" THEN [v |-> JArr(<<>>), i |-> i + 2]
            ELSE ScanItems(str, i + 1, <<>>)
      [] At(str, i) = "{" ->
            IF At(str, i + 1) = "}" THEN [v |-> JObj(<<>>), i |-> i + 2]
            ELSE ScanMembers(str, i + 1, <<>>)
      [] At(str, i) = "-" ->
            LET r == ScanDigits(str, i + 1, 0) IN [v |-> JInt(-r.v), i |-> r.i]
      [] At(str, i) \in Range(DigitChars) ->
            LET r == ScanDigits(str, i, 0) IN [v |-> JInt(r.v), i |-> r.i]
      [] OTHER -> [v |-> JLit(At(str, i)), i |-> i + 1]

ScanItems(str, i, acc) ==
    LET r == ScanValue(str, i)
        items == Append(acc, r.v)
    IN  IF At(str, r.i) = ","
        THEN ScanItems(str, SkipSpace(str, r.i + 1), items)
        ELSE [v |-> JArr(items), i |-> r.i + 1]

ScanMembers(str, i, acc) ==
    LET key == ScanString(str, i + 1, <<>>)
        val == ScanValue(str, SkipSpace(str, key.i + 1))
        members == Append(acc, <<key.v, val.v>>)
    IN  IF At(str, val.i) = ","
        THEN ScanMembers(str, SkipSpace(str, val.i + 1), members)
        ELSE [v |-> JObj(members), i |-> val.i + 1]

\* json.loads of a stored JSON string
JsonLoads(str) == ScanValue(str, 1).v

\* the documents that the corpora of the model carry
Docs == {PayloadOf(text) : text \in Texts} \cup Range(IntentDocs)

\* json.dumps and json.loads tabulated over these documents and their stored
\* forms
Dumped == [doc \in Docs |-> JsonDumps(doc)]

Loaded == [str \in {Dumped[doc] : doc \in Docs} |-> JsonLoads(str)]

----------------------------------------------------------------------------
(* The chroma collection *)

NoCollection == [exists |-> FALSE, entries |-> <<>>]

\* variant: a record equal to an earlier record of the corpus is left out
EntriesDeduplicated(train_data, embedding_model) ==
    LET IsFirst(i) == \A j \in 1..(i - 1) : train_data[j] # train_data[i]
        firsts == {i \in 1..Len(train_data) : IsFirst(i)}
        RECURSIVE Build(_)
        Build(i) ==
            IF i > Len(train_data) THEN <<>>
            ELSE (IF i \in firsts
                  THEN <<[id        |-> <<"intent", i - 1>>,
                          document  |-> train_data[i].user_intent,
                          metadata  |-> [tmf921_intent |-> Dumped[train_data[i].tmf921_intent],
                                         user_intent   |-> train_data[i].user_intent],
                          embedding |-> EncodeWith(embedding_model, train_data[i].user_intent)]>>
                  ELSE <<>>) \o Build(i + 1)
    IN  Build(1)

\* ids, documents, metadatas and embeddings handed to collection.add
Entries(train_data, embedding_model) ==
    [i \in 1..Len(train_data) |->
        [id        |-> <<"intent", i - 1>>,
         document  |-> train_data[i].user_intent,
         metadata  |-> [tmf921_intent |-> Dumped[train_data[i].tmf921_intent],
                        user_intent   |-> train_data[i].user_intent],
         embedding |-> EncodeWith(embedding_model, train_data[i].user_intent)]]

\* one entry annotated with its distance to the query vector
Hit(entry, qemb) ==
    [id |-> entry.id, document |-> entry.document, metadata |-> entry.metadata,
     distance |-> L2(qemb, entry.embedding)]

\* insert x after every element that is not farther than x (stable)
RECURSIVE InsertByDistance(_, _)
InsertByDistance(sorted, x) ==
    IF sorted = <<>> THEN <<x>>
    ELSE IF x.distance < Head(sorted).distance THEN <<x>> \o sorted
    ELSE <<Head(sorted)>> \o InsertByDistance(Tail(sorted), x)

RECURSIVE SortByDistance(_)
SortByDistance(hits) ==
    IF hits = <<>> THEN <<>>
    ELSE InsertByDistance(SortByDistance(SubSeq(hits, 1, Len(hits) - 1)),
                          hits[Len(hits)])

\* collection.query(query_embeddings=[qemb], n_results=n) on the entries:
\* the n nearest entries by ascending distance, equal distances in insertion
\* order, all entries when n exceeds the collection size
NearestHits(entries, qemb, n) ==
    Prefix(SortByDistance([i \in 1..Len(entries) |-> Hit(entries[i], qemb)]), n)

----------------------------------------------------------------------------
(* Outcome of one call: the returned list or the exception raised, with the  *)
(* number of encode calls and index queries the call made                   *)

Return(examples, e, q) ==
    [status |-> "ok", examples |-> examples, error |-> "", embeds |-> e, queries |-> q]

Raise(error, e, q) ==
    [status |-> "error", examples |-> <<>>, error |-> error, embeds |-> e, queries |-> q]

\* a loop that never exits: the call does not return
Hang(e, q) ==
    [status |-> "hang", examples |-> <<>>, error |-> "", embeds |-> e, queries |-> q]

----------------------------------------------------------------------------
(* RAGRetriever *)

\* Faults of the collaborators during one retrieval call: the first encode
\* call raises, the index query raises, or the encode calls that retrieve_mmr
\* makes after its fetch raise
RetrievalFaults == {"none", "encode", "query", "reencode"}

\* A retriever handle: the collection it was opened on ("none" before
\* __init__, "stale" once that collection has been deleted) and the model of
\* self.embedder
NoRetriever == [collection |-> "none", embedder |-> ""]

Handle(embedding_model) == [collection |-> "open", embedder |-> embedding_model]

\* variant: a failing index query yields no rows instead of raising
CollectionQueryNoRaise(idx, handle, qemb, n, fault) ==
    IF fault = "query" THEN Return(<<>>, 1, 1)
    ELSE IF ~idx.exists \/ handle.collection # "open"
         THEN Raise("CollectionNotFound", 1, 1)
    ELSE IF n <= 0 THEN Raise("ValueError", 1, 1)
    ELSE Return(NearestHits(idx.entries, qemb, n), 1, 1)

\* self.collection.query through the handle obtained in __init__; chroma
\* rejects n_results <= 0
CollectionQuery(idx, handle, qemb, n, fault) ==
    IF fault = "query" THEN Raise("QueryError", 1, 1)
    ELSE IF ~idx.exists \/ handle.collection # "open"
         THEN Raise("CollectionNotFound", 1, 1)
    ELSE IF n <= 0 THEN Raise("ValueError", 1, 1)
    ELSE Return(NearestHits(idx.entries, qemb, n), 1, 1)

\* the example dict built from result row i
Example(hit) ==
    [user_intent   |-> hit.document,
     tmf921_intent |-> Loaded[hit.metadata.tmf921_intent],
     distance      |-> hit.distance,
     id            |-> hit.id]

\* variant: the result rows are formatted from the last to the first
retrieve_top_k_reversed(idx, handle, query, k, fault) ==
    LET query_embedding == EncodeWith(handle.embedder, query)
        results == CollectionQuery(idx, handle, query_embedding, k, fault)
        n == Len(results.examples)
    IN  IF fault = "encode" THEN Raise("EncodeError", 1, 0)
        ELSE IF results.status # "ok" THEN results
        ELSE Return([i \in 1..n |-> Example(results.examples[n + 1 - i])],
                    results.embeds, results.queries)

retrieve_top_k(idx, handle, query, k, fault) ==
    LET query_embedding == EncodeWith(handle.embedder, query)
        results == CollectionQuery(idx, handle, query_embedding, k, fault)
    IN  IF fault = "encode" THEN Raise("EncodeError", 1, 0)
        ELSE IF results.status # "ok" THEN results
        ELSE Return([i \in 1..Len(results.examples) |-> Example(results.examples[i])],
                    results.embeds, results.queries)

\* Python max() over a list of floats: keeps the running maximum unless a
\* later element compares greater, so a leading NaN is never replaced
RECURSIVE PyMax(_)
PyMax(xs) ==
    IF Len(xs) = 1 THEN xs[1]
    ELSE LET m == PyMax(SubSeq(xs, 1, Len(xs) - 1))
         IN  IF Gt(xs[Len(xs)], m) THEN xs[Len(xs)] ELSE m

\* twenty times lambda_mult * relevance + (1 - lambda_mult) * diversity for
\* candidate i (lambda_mult in tenths, relevance and diversity doubled)
MMRScore(query_emb, candidate_embs, selected_indices, i, lambda_mult) ==
    LET relevance == CosineSimilarity(query_emb, candidate_embs[i])
        similarities ==
            [j \in 1..Len(selected_indices) |->
                CosineSimilarity(candidate_embs[i], candidate_embs[selected_indices[j]])]
        diversity ==
            IF selected_indices # <<>>
            THEN LET m == PyMax(similarities) IN IF m.nan THEN NaN ELSE Num(2 - m.v)
            ELSE Num(2)
    IN  IF relevance.nan \/ diversity.nan THEN NaN
        ELSE Num(lambda_mult * relevance.v + (10 - lambda_mult) * diversity.v)

\* variant: the for loop without the skip of already selected candidates
RECURSIVE BestCandidateNoSkip(_, _, _, _, _)
BestCandidateNoSkip(query_emb, candidate_embs, selected_indices, i, lambda_mult) ==
    IF i = 0 THEN [best_idx |-> 0, best_score |-> NaN]
    ELSE LET prev  == BestCandidateNoSkip(query_emb, candidate_embs, selected_indices,
                                          i - 1, lambda_mult)
             score == MMRScore(query_emb, candidate_embs, selected_indices, i, lambda_mult)
         IN  IF ~score.nan /\ (prev.best_idx = 0 \/ Gt(score, prev.best_score))
             THEN [best_idx |-> i, best_score |-> score]
             ELSE prev

\* the for loop over the candidates up to position i: best_idx (0 stands
\* for the initial -1) and best_score (meaningful once best_idx is set;
\* before that it is -inf, below every number)
RECURSIVE BestCandidate(_, _, _, _, _)
BestCandidate(query_emb, candidate_embs, selected_indices, i, lambda_mult) ==
    IF i = 0 THEN [best_idx |-> 0, best_score |-> NaN]
    ELSE LET prev  == BestCandidate(query_emb, candidate_embs, selected_indices,
                                    i - 1, lambda_mult)
             score == MMRScore(query_emb, candidate_embs, selected_indices, i, lambda_mult)
         IN  IF i \in Range(selected_indices) THEN prev
             ELSE IF ~score.nan /\ (prev.best_idx = 0 \/ Gt(score, prev.best_score))
                  THEN [best_idx |-> i, best_score |-> score]
             ELSE prev

\* variant: each selected candidate is put at the front of the list
RECURSIVE MMRLoopPrepend(_, _, _, _, _)
MMRLoopPrepend(query_emb, candidate_embs, selected_indices, k, lambda_mult) ==
    IF ~(Len(selected_indices) < k) THEN selected_indices
    ELSE LET best == BestCandidate(query_emb, candidate_embs, selected_indices,
                                   Len(candidate_embs), lambda_mult)
         IN  IF best.best_idx > 0
             THEN MMRLoopPrepend(query_emb, candidate_embs,
                          <<best.best_idx>> \o selected_indices, k, lambda_mult)
             ELSE <<0>>

\* the while loop: the selected indices in selection order, or <<0>> when an
\* iteration selects nothing, after which the loop repeats unchanged forever
RECURSIVE MMRLoop(_, _, _, _, _)
MMRLoop(query_emb, candidate_embs, selected_indices, k, lambda_mult) ==
    IF ~(Len(selected_indices) < k) THEN selected_indices
    ELSE LET best == BestCandidate(query_emb, candidate_embs, selected_indices,
                                   Len(candidate_embs), lambda_mult)
         IN  IF best.best_idx > 0
             THEN MMRLoop(query_emb, candidate_embs,
                          Append(selected_indices, best.best_idx), k, lambda_mult)
             ELSE <<0>>

\* variant: no early return, the candidates are embedded and the loop runs
\* whatever the size of the pool
MMRSelectAlways(candidates, handle, query, k, lambda_mult, fault) ==
    LET pool == candidates.examples
        query_emb == EncodeWith(handle.embedder, query)
        candidate_embs == [i \in 1..Len(pool) |->
                             EncodeWith(handle.embedder, pool[i].user_intent)]
        selected_indices == MMRLoop(query_emb, candidate_embs, <<>>, k, lambda_mult)
    IN  IF candidates.status # "ok" THEN candidates
        ELSE IF fault = "reencode"
             THEN Raise("EncodeError", candidates.embeds + 1, candidates.queries)
        ELSE IF selected_indices = <<0>>
             THEN Hang(candidates.embeds + 2, candidates.queries)
        ELSE Return([j \in 1..Len(selected_indices) |-> pool[selected_indices[j]]],
                    candidates.embeds + 2, candidates.queries)

\* variant: the early return is taken only for a pool smaller than k
MMRSelectStrict(candidates, handle, query, k, lambda_mult, fault) ==
    LET pool == candidates.examples
        query_emb == EncodeWith(handle.embedder, query)
        candidate_embs == [i \in 1..Len(pool) |->
                             EncodeWith(handle.embedder, pool[i].user_intent)]
        selected_indices == MMRLoop(query_emb, candidate_embs, <<>>, k, lambda_mult)
    IN  IF candidates.status # "ok" THEN candidates
        ELSE IF Len(pool) < k THEN candidates
        ELSE IF fault = "reencode"
             THEN Raise("EncodeError", candidates.embeds + 1, candidates.queries)
        ELSE IF selected_indices = <<0>>
             THEN Hang(candidates.embeds + 2, candidates.queries)
        ELSE Return([j \in 1..Len(selected_indices) |-> pool[selected_indices[j]]],
                    candidates.embeds + 2, candidates.queries)

\* retrieve_mmr after its fetch: the early return, the two encode calls and
\* the selection loop over the fetched candidates
MMRSelect(candidates, handle, query, k, lambda_mult, fault) ==
    LET pool == candidates.examples
        query_emb == EncodeWith(handle.embedder, query)
        candidate_embs == [i \in 1..Len(pool) |->
                             EncodeWith(handle.embedder, pool[i].user_intent)]
        selected_indices == MMRLoop(query_emb, candidate_embs, <<>>, k, lambda_mult)
    IN  IF candidates.status # "ok" THEN candidates
        ELSE IF Len(pool) <= k THEN candidates
        ELSE IF fault = "reencode"
             THEN Raise("EncodeError", candidates.embeds + 1, candidates.queries)
        ELSE IF selected_indices = <<0>>
             THEN Hang(candidates.embeds + 2, candidates.queries)
        ELSE Return([j \in 1..Len(selected_indices) |-> pool[selected_indices[j]]],
                    candidates.embeds + 2, candidates.queries)

retrieve_mmr(idx, handle, query, k, fetch_k, lambda_mult, fault) ==
    MMRSelect(retrieve_top_k(idx, handle, query, fetch_k, fault),
              handle, query, k, lambda_mult, fault)

\* len(query_keywords & doc_keywords), the numerator of keyword_overlap
KeywordOverlap(query_keywords, text) == Cardinality(query_keywords \cap Keywords(text))

\* variant: the two weights exchanged
CombinedScoreSwapped(result, query_keywords, keyword_weight) ==
    LET n == Cardinality(query_keywords)
        overlap == KeywordOverlap(query_keywords, result.user_intent)
    IN  [num |-> keyword_weight * n + (10 - keyword_weight) * overlap * (1 + result.distance),
         den |-> (1 + result.distance) * n]

\* ten times (1 - keyword_weight) / (1 + distance) + keyword_weight * overlap / n
\* as the exact fraction num / den (keyword_weight in tenths)
CombinedScore(result, query_keywords, keyword_weight) ==
    LET n == Cardinality(query_keywords)
        overlap == KeywordOverlap(query_keywords, result.user_intent)
    IN  [num |-> (10 - keyword_weight) * n + keyword_weight * overlap * (1 + result.distance),
         den |-> (1 + result.distance) * n]

\* variant: a.combined_score <= b.combined_score
ScoreLessOrEqual(a, b) ==
    a.combined_score.num * b.combined_score.den <= b.combined_score.num * a.combined_score.den

\* a.combined_score < b.combined_score
ScoreLess(a, b) ==
    a.combined_score.num * b.combined_score.den < b.combined_score.num * a.combined_score.den

\* list.sort(key=combined_score, reverse=True): descending and stable
RECURSIVE InsertByScore(_, _)
InsertByScore(sorted, x) ==
    IF sorted = <<>> THEN <<x>>
    ELSE IF ScoreLess(Head(sorted), x) THEN <<x>> \o sorted
    ELSE <<Head(sorted)>> \o InsertByScore(Tail(sorted), x)

RECURSIVE SortByScore(_)
SortByScore(results) ==
    IF results = <<>> THEN <<>>
    ELSE InsertByScore(SortByScore(SubSeq(results, 1, Len(results) - 1)),
                       results[Len(results)])

\* the re-ranking loop: every result dict gets its combined_score written
Scored(semantic_results, query_keywords, keyword_weight) ==
    [i \in 1..Len(semantic_results) |->
        [user_intent    |-> semantic_results[i].user_intent,
         tmf921_intent  |-> semantic_results[i].tmf921_intent,
         distance       |-> semantic_results[i].distance,
         id             |-> semantic_results[i].id,
         combined_score |-> CombinedScore(semantic_results[i],
                                          query_keywords, keyword_weight)]]

retrieve_hybrid(idx, handle, query, k, keyword_weight, fault) ==
    LET semantic_results == retrieve_top_k(idx, handle, query, k * 2, fault)
        query_keywords == Keywords(query)
        scored == Scored(semantic_results.examples, query_keywords, keyword_weight)
    IN  IF semantic_results.status # "ok" THEN semantic_results
        ELSE IF semantic_results.examples # <<>> /\ query_keywords = {}
             THEN Raise("ZeroDivisionError", semantic_results.embeds, semantic_results.queries)
        ELSE Return(Prefix(SortByScore(scored), k),
                    semantic_results.embeds, semantic_results.queries)

----------------------------------------------------------------------------
(* RAGTranslator *)

Strategies == {"topk", "mmr", "hybrid", "bm25"}

\* variant: an unknown strategy name falls back to top-k
retrieve_examples_fallback(idx, handle, retrieval_strategy, k, user_intent, fault) ==
    CASE retrieval_strategy = "mmr"    ->
            retrieve_mmr(idx, handle, user_intent, k, DefaultFetchK, DefaultLambdaMult, fault)
      [] retrieval_strategy = "hybrid" ->
            retrieve_hybrid(idx, handle, user_intent, k, DefaultKeywordWeight, fault)
      [] OTHER -> retrieve_top_k(idx, handle, user_intent, k, fault)

\* RAGTranslator.retrieve_examples: dispatch on self.retrieval_strategy with
\* the default strategy parameters of the retriever
retrieve_examples(idx, handle, retrieval_strategy, k, user_intent, fault) ==
    CASE retrieval_strategy = "topk"   -> retrieve_top_k(idx, handle, user_intent, k, fault)
      [] retrieval_strategy = "mmr"    ->
            retrieve_mmr(idx, handle, user_intent, k, DefaultFetchK, DefaultLambdaMult, fault)
      [] retrieval_strategy = "hybrid" ->
            retrieve_hybrid(idx, handle, user_intent, k, DefaultKeywordWeight, fault)
      [] OTHER -> Raise("ValueError", 0, 0)

----------------------------------------------------------------------------
(* Prompt formatting.  A prompt is its sequence of characters, a run of      *)
(* plain letters counting as one and "\n" being the line break.             *)

\* seq[:n] of Python: a negative n counts from the end
SliceTo(seq, n) ==
    IF n >= 0 THEN SubSeq(seq, 1, Min(n, Len(seq)))
    ELSE SubSeq(seq, 1, IF Len(seq) + n > 0 THEN Len(seq) + n ELSE 0)

\* the line break and the indentation json.dumps(indent=2) writes at a level
NewLine(level) == <<"\n">> \o [i \in 1..(2 * level) |-> " "]

RECURSIVE JsonDumpsIndent(_, _), DumpItemsIndent(_, _), DumpMembersIndent(_, _)
\* json.dumps(obj, indent=2): one item or member per line, empty containers
\* written as [] and {}
JsonDumpsIndent(obj, level) ==
    CASE obj.t = "arr" ->
            IF obj.v = <<>> THEN <<"[", "]">>
            ELSE <<"[">> \o NewLine(level + 1) \o DumpItemsIndent(obj.v, level + 1)
                    \o NewLine(level) \o <<"]">>
      [] obj.t = "obj" ->
            IF obj.v = <<>> THEN <<"{", "}">>
            ELSE <<"{">> \o NewLine(level + 1) \o DumpMembersIndent(obj.v, level + 1)
                    \o NewLine(level) \o <<"}">>
      [] OTHER -> JsonDumps(obj)

DumpItemsIndent(items, level) ==
    JsonDumpsIndent(Head(items), level)
        \o (IF Len(items) > 1
            THEN <<",">> \o NewLine(level) \o DumpItemsIndent(Tail(items), level)
            ELSE <<>>)

DumpMembersIndent(members, level) ==
    EncodeString(Head(members)[1]) \o <<":", " ">>
        \o JsonDumpsIndent(Head(members)[2], level)
        \o (IF Len(members) > 1
            THEN <<",">> \o NewLine(level) \o DumpMembersIndent(Tail(members), level)
            ELSE <<>>)

RECURSIVE JoinLines(_)
\* "\n".join(lines)
JoinLines(lines) ==
    IF lines = <<>> THEN <<>>
    ELSE IF Len(lines) = 1 THEN lines[1]
    ELSE lines[1] \o <<"\n">> \o JoinLines(Tail(lines))

RECURSIVE FormattedLines(_, _)
\* the list `formatted` after the examples from position i on are appended
FormattedLines(examples, i) ==
    IF i > Len(examples) THEN <<>>
    ELSE << <<"Example ">> \o Digits(i) \o <<":">>,
            <<"User Intent: ">> \o examples[i].user_intent,
            <<"TMF921 Intent:">>,
            JsonDumpsIndent(examples[i].tmf921_intent, 0),
            <<>> >> \o FormattedLines(examples, i + 1)

\* RAGRetriever.format_examples_for_prompt
format_examples_for_prompt(examples, max_examples) ==
    JoinLines(FormattedLines(SliceTo(examples, max_examples), 1))

RECURSIVE ExamplesText(_, _)
\* the list examples_text of build_rag_prompt
ExamplesText(examples, i) ==
    IF i > Len(examples) THEN <<>>
    ELSE << <<"\n", "--- Example ">> \o Digits(i) \o <<" ---">>,
            <<"User Intent: ">> \o examples[i].user_intent,
            <<"\n", "TMF921 Intent (JSON with Turtle RDF):">>,
            JsonDumpsIndent(examples[i].tmf921_intent, 0) >>
         \o ExamplesText(examples, i + 1)

\* RAGTranslator.build_rag_prompt: the pair (system_prompt, user_prompt).  The
\* fixed sentences are one character each; the four lines written from the
\* categorizer's analysis are the one character "INTENT ANALYSIS".
build_rag_prompt(user_intent, examples) ==
    LET examples_str == JoinLines(ExamplesText(SliceTo(examples, PromptExamples), 1))
    IN  [system_prompt |-> <<"You are an expert TMF921 Intent translator.">>,
         user_prompt |->
             <<"Using the examples below as reference, translate this telecom intent to TMF921 format:",
               "\n", "\n", "SIMILAR EXAMPLES FROM TRAINING DATA:", "\n">>
             \o examples_str
             \o <<"\n", "\n", "INTENT TO TRANSLATE:", "\n">>
             \o user_intent
             \o <<"\n", "\n", "INTENT ANALYSIS", "\n", "\n",
                  "Generate a complete, valid TMF921 Intent JSON following the pattern above. Output ONLY the JSON, no other text.">>]

----------------------------------------------------------------------------
(* Inputs *)

Ks == -1..MaxK

FetchKs == 1..MaxK

Weights == {0, 5, 10}

\* values of max_examples
MaxExamples == -1..MaxPrompt

BuildFaults == {"none", "encode", "add"}

\* the texts in a fixed order
TextList == <<(<<"deploy", "slice">>), (<<"Deploy", "slice", "robots">>),
              (<<"stream", "video">>), (<<>>)>>

\* corpora of full length: the records of the texts taken in turn from each
\* starting point
FullCorpora ==
    {[i \in 1..MaxCorpus |->
         [user_intent   |-> TextList[((s + i) % Len(TextList)) + 1],
          tmf921_intent |-> PayloadOf(TextList[((s + i) % Len(TextList)) + 1])]] :
       s \in 1..Len(TextList)}

\* corpora of MaxPrompt records, the texts taken in turn
PromptCorpora ==
    {[i \in 1..MaxPrompt |->
         [user_intent   |-> TextList[((s + i) % Len(TextList)) + 1],
          tmf921_intent |-> PayloadOf(TextList[((s + i) % Len(TextList)) + 1])]] :
       s \in 1..Len(TextList)}

NoCall == [op |-> "none"]

NoTranslator == [retrieval_strategy |-> "", k |-> 0, retriever |-> NoRetriever]

\* history: whether a build has run to its end, and the corpus and the model
\* that the last collection.add was given (none when it raised)
NeverBuilt == [done |-> FALSE, train_data |-> <<>>, embedding_model |-> ""]

NoBuild == [pc |-> "idle"]

NoThreads == <<>>

\* the threads that call one RAGRetriever at the same time
Readers == {1, 2}

IdleCall == [pc |-> "idle"]

----------------------------------------------------------------------------
(* State machine *)

Init ==
    /\ index = NoCollection
    /\ retriever = NoRetriever
    /\ translator = NoTranslator
    /\ pc = "idle"
    /\ last = NoCall
    /\ built = NeverBuilt
    /\ builder = NoBuild
    /\ threads = NoThreads

\* a handle opened on the collection that delete_collection removes
Invalidate(handle) ==
    IF handle.collection = "none" THEN handle
    ELSE [handle EXCEPT !.collection = "stale"]

\* what a build call leaves for its caller
BuildCall(train_data, fault, res) ==
    [op |-> "build", n |-> Len(train_data), fault |-> fault, res |-> res]

\* variant: collection.add accepts an empty id list
build_vector_database_empty_ok(train_data, embedding_model, fault) ==
    /\ pc = "idle"
    /\ builder = NoBuild
    /\ pc' = "returned"
    /\ IF fault = "encode"
       THEN /\ last' = BuildCall(train_data, fault, Raise("EncodeError", 1, 0))
            /\ UNCHANGED <<index, retriever, translator, built>>
       ELSE /\ retriever' = Invalidate(retriever)
            /\ translator' = [translator EXCEPT !.retriever = Invalidate(@)]
            /\ IF fault = "add"
               THEN /\ index' = [exists |-> TRUE, entries |-> <<>>]
                    /\ last' = BuildCall(train_data, fault, Raise("AddError", 1, 0))
                    /\ built' = [NeverBuilt EXCEPT !.done = built.done]
               ELSE /\ index' = [exists |-> TRUE,
                                 entries |-> Entries(train_data, embedding_model)]
                    /\ last' = BuildCall(train_data, fault, Return(<<>>, 1, 0))
                    /\ built' = [done |-> TRUE, train_data |-> train_data,
                                 embedding_model |-> embedding_model]
    /\ UNCHANGED <<builder, threads>>

\* variant: the collection is deleted before the corpus is embedded
build_vector_database_delete_first(train_data, embedding_model, fault) ==
    /\ pc = "idle"
    /\ builder = NoBuild
    /\ pc' = "returned"
    /\ retriever' = Invalidate(retriever)
    /\ translator' = [translator EXCEPT !.retriever = Invalidate(@)]
    /\ IF fault = "encode"
       THEN /\ index' = NoCollection
            /\ last' = BuildCall(train_data, fault, Raise("EncodeError", 1, 0))
            /\ built' = [NeverBuilt EXCEPT !.done = built.done]
       ELSE IF fault = "add" \/ train_data = <<>>
       THEN /\ index' = [exists |-> TRUE, entries |-> <<>>]
            /\ last' = BuildCall(train_data, fault, Raise("AddError", 1, 0))
            /\ built' = [NeverBuilt EXCEPT !.done = built.done]
       ELSE /\ index' = [exists |-> TRUE,
                         entries |-> Entries(train_data, embedding_model)]
            /\ last' = BuildCall(train_data, fault, Return(<<>>, 1, 0))
            /\ built' = [done |-> TRUE, train_data |-> train_data,
                         embedding_model |-> embedding_model]
    /\ UNCHANGED <<builder, threads>>

\* build_vector_database(train_data, embedding_model) run alone: embed,
\* delete, create, add.  A fault is an exception of the embedding model or of
\* collection.add; an empty id list makes collection.add raise by itself.
build_vector_database(train_data, embedding_model, fault) ==
    /\ pc = "idle"
    /\ builder = NoBuild
    /\ pc' = "returned"
    /\ IF fault = "encode"
       THEN /\ last' = BuildCall(train_data, fault, Raise("EncodeError", 1, 0))
            /\ UNCHANGED <<index, retriever, translator, built>>
       ELSE /\ retriever' = Invalidate(retriever)
            /\ translator' = [translator EXCEPT !.retriever = Invalidate(@)]
            /\ IF fault = "add" \/ train_data = <<>>
               THEN /\ index' = [exists |-> TRUE, entries |-> <<>>]
                    /\ last' = BuildCall(train_data, fault, Raise("AddError", 1, 0))
                    /\ built' = [NeverBuilt EXCEPT !.done = built.done]
               ELSE /\ index' = [exists |-> TRUE,
                                 entries |-> Entries(train_data, embedding_model)]
                    /\ last' = BuildCall(train_data, fault, Return(<<>>, 1, 0))
                    /\ built' = [done |-> TRUE, train_data |-> train_data,
                                 embedding_model |-> embedding_model]
    /\ UNCHANGED <<builder, threads>>

\* The same build taken step by step, as a reader in another process sees it.
\* First step: the intents are extracted and embedded.
BuildEmbed(train_data, embedding_model) ==
    /\ builder = NoBuild
    /\ builder' = [pc |-> "embedded", train_data |-> train_data,
                   embedding_model |-> embedding_model]
    /\ UNCHANGED <<index, retriever, translator, pc, last, built, threads>>

\* client.delete_collection inside try/except
BuildDelete ==
    /\ builder.pc = "embedded"
    /\ builder' = [builder EXCEPT !.pc = "deleted"]
    /\ index' = NoCollection
    /\ retriever' = Invalidate(retriever)
    /\ translator' = [translator EXCEPT !.retriever = Invalidate(@)]
    /\ UNCHANGED <<pc, last, built, threads>>

\* client.create_collection
BuildCreate ==
    /\ builder.pc = "deleted"
    /\ builder' = [builder EXCEPT !.pc = "created"]
    /\ index' = [exists |-> TRUE, entries |-> <<>>]
    /\ UNCHANGED <<retriever, translator, pc, last, built>>
    /\ UNCHANGED threads

\* collection.add of all ids, embeddings, documents and metadatas in one call
BuildAdd ==
    /\ builder.pc = "created"
    /\ builder' = NoBuild
    /\ IF builder.train_data = <<>>
       THEN /\ index' = index
            /\ built' = [NeverBuilt EXCEPT !.done = built.done]
       ELSE /\ index' = [exists |-> TRUE,
                         entries |-> Entries(builder.train_data,
                                             builder.embedding_model)]
            /\ built' = [done |-> TRUE, train_data |-> builder.train_data,
                         embedding_model |-> builder.embedding_model]
    /\ UNCHANGED <<retriever, translator, pc, last, threads>>

\* variant: the calls keep their results in one list of the retriever
ListOfRetriever(t) == 1

\* The list object that call t works on: examples = [] makes a new list in
\* every call
ListOf(t) == t

\* n_results of the fetch that an operation starts with
FetchSize(op, k) ==
    CASE op = "retrieve_top_k"  -> k
      [] op = "retrieve_mmr"    -> DefaultFetchK
      [] op = "retrieve_hybrid" -> k * 2

\* Thread t enters a retrieval method and gets its candidates from the index:
\* encode, collection.query, and the example dicts appended to a list
CallFetch(t, op, query, k) ==
    LET fetched == retrieve_top_k(index, retriever, query, FetchSize(op, k), "none")
    IN  /\ threads.calls[t] = IdleCall
        /\ threads' =
              IF fetched.status # "ok"
              THEN [threads EXCEPT !.calls[t] = [pc |-> "done", op |-> op,
                                                query |-> query, k |-> k,
                                                res |-> fetched]]
              ELSE [threads EXCEPT !.calls[t] = [pc |-> "fetched", op |-> op,
                                                query |-> query, k |-> k,
                                                res |-> fetched],
                                   !.lists[ListOf(t)] = fetched.examples]
        /\ UNCHANGED <<index, retriever, translator, pc, last, built, builder>>

\* Thread t goes on with the list it fetched: retrieve_top_k returns it,
\* retrieve_mmr selects from it, retrieve_hybrid writes the combined scores
\* into its dicts
CallScore(t) ==
    LET call == threads.calls[t]
        examples == threads.lists[ListOf(t)]
        candidates == [call.res EXCEPT !.examples = examples]
    IN  /\ call.pc = "fetched"
        /\ threads' =
              CASE call.op = "retrieve_top_k" ->
                      [threads EXCEPT !.calls[t].pc = "done",
                                      !.calls[t].res = candidates]
                [] call.op = "retrieve_mmr" ->
                      [threads EXCEPT !.calls[t].pc = "done",
                                      !.calls[t].res =
                                          MMRSelect(candidates, retriever, call.query,
                                                    call.k, DefaultLambdaMult, "none")]
                [] call.op = "retrieve_hybrid" ->
                      IF examples # <<>> /\ Keywords(call.query) = {}
                      THEN [threads EXCEPT !.calls[t].pc = "done",
                                           !.calls[t].res =
                                               Raise("ZeroDivisionError",
                                                     call.res.embeds, call.res.queries)]
                      ELSE [threads EXCEPT !.calls[t].pc = "scored",
                                           !.lists[ListOf(t)] =
                                               Scored(examples, Keywords(call.query),
                                                      DefaultKeywordWeight)]
        /\ UNCHANGED <<index, retriever, translator, pc, last, built, builder>>

\* retrieve_hybrid sorts its list by combined score and returns the first k
CallRank(t) ==
    LET call == threads.calls[t]
    IN  /\ call.pc = "scored"
        /\ threads' = [threads EXCEPT
                          !.calls[t].pc = "done",
                          !.calls[t].res =
                              Return(Prefix(SortByScore(threads.lists[ListOf(t)]), call.k),
                                     call.res.embeds, call.res.queries)]
        /\ UNCHANGED <<index, retriever, translator, pc, last, built, builder>>

\* the caller in thread t takes the result; the list of the call is garbage
CallReturn(t) ==
    /\ threads.calls[t].pc = "done"
    /\ threads' = [threads EXCEPT !.calls[t] = IdleCall, !.lists[ListOf(t)] = <<>>]
    /\ UNCHANGED <<index, retriever, translator, pc, last, built, builder>>

\* RAGRetriever.__init__(embedding_model): client.get_collection raises when
\* there is no collection; nothing else about the index is looked at
RAGRetrieverInit(embedding_model) ==
    /\ pc = "idle"
    /\ pc' = "returned"
    /\ IF index.exists
       THEN /\ retriever' = Handle(embedding_model)
            /\ last' = [op |-> "open", res |-> Return(<<>>, 0, 0)]
       ELSE /\ retriever' = retriever
            /\ last' = [op |-> "open", res |-> Raise("CollectionNotFound", 0, 0)]
    /\ UNCHANGED <<index, translator, built, builder, threads>>

Call(op, query, k, fetch_k, lambda_mult, keyword_weight, strategy, fault, res) ==
    [op |-> op, query |-> query, k |-> k, fetch_k |-> fetch_k,
     lambda_mult |-> lambda_mult, keyword_weight |-> keyword_weight,
     strategy |-> strategy, fault |-> fault, res |-> res]

RetrieveTopK(query, k, fault) ==
    /\ pc = "idle"
    /\ retriever # NoRetriever
    /\ pc' = "returned"
    /\ last' = Call("retrieve_top_k", query, k, 0, 0, 0, "", fault,
                     retrieve_top_k(index, retriever, query, k, fault))
    /\ UNCHANGED <<index, retriever, translator, built, builder, threads>>

RetrieveMMR(query, k, fetch_k, lambda_mult, fault) ==
    /\ pc = "idle"
    /\ retriever # NoRetriever
    /\ pc' = "returned"
    /\ last' = Call("retrieve_mmr", query, k, fetch_k, lambda_mult, 0, "", fault,
                     retrieve_mmr(index, retriever, query, k, fetch_k, lambda_mult,
                                  fault))
    /\ UNCHANGED <<index, retriever, translator, built, builder, threads>>

RetrieveHybrid(query, k, keyword_weight, fault) ==
    /\ pc = "idle"
    /\ retriever # NoRetriever
    /\ pc' = "returned"
    /\ last' = Call("retrieve_hybrid", query, k, 0, 0, keyword_weight, "", fault,
                     retrieve_hybrid(index, retriever, query, k, keyword_weight,
                                     fault))
    /\ UNCHANGED <<index, retriever, translator, built, builder, threads>>

\* RAGTranslator.__init__: stores the strategy name and k unchecked and
\* constructs its own RAGRetriever
RAGTranslatorInit(retrieval_strategy, k) ==
    /\ pc = "idle"
    /\ pc' = "returned"
    /\ IF index.exists
       THEN /\ translator' = [retrieval_strategy |-> retrieval_strategy, k |-> k,
                              retriever |-> Handle(DefaultModel)]
            /\ last' = [op |-> "new_translator", res |-> Return(<<>>, 0, 0)]
       ELSE /\ translator' = translator
            /\ last' = [op |-> "new_translator",
                        res |-> Raise("CollectionNotFound", 0, 0)]
    /\ UNCHANGED <<index, retriever, built, builder, threads>>

RetrieveExamples(user_intent, fault) ==
    /\ pc = "idle"
    /\ translator # NoTranslator
    /\ pc' = "returned"
    /\ last' = Call("retrieve_examples", user_intent, translator.k, 0, 0, 0,
                     translator.retrieval_strategy, fault,
                     retrieve_examples(index, translator.retriever,
                                       translator.retrieval_strategy, translator.k,
                                       user_intent, fault))
    /\ UNCHANGED <<index, retriever, translator, built, builder, threads>>

\* the caller takes the result (or the exception) of the last call and goes on;
\* a call that hangs never gets here
\* formatted = retriever.format_examples_for_prompt(examples, max_examples)
\* on the list a retrieval call has just returned
FormatExamplesForPrompt(max_examples) ==
    /\ pc = "returned"
    /\ last.op \in {"retrieve_top_k", "retrieve_mmr", "retrieve_hybrid"}
    /\ last.res.status = "ok"
    /\ pc' = "returned"
    /\ last' = [op |-> "format_examples_for_prompt",
                examples |-> last.res.examples, max_examples |-> max_examples,
                res |-> [status |-> "ok",
                         text |-> format_examples_for_prompt(last.res.examples,
                                                             max_examples)]]
    /\ UNCHANGED <<index, retriever, translator, built, builder, threads>>

\* RAGTranslator.translate going on after retrieve_examples has returned:
\* system_prompt, user_prompt = self.build_rag_prompt(user_intent, examples)
BuildRagPrompt ==
    /\ pc = "returned"
    /\ last.op = "retrieve_examples"
    /\ last.res.status = "ok"
    /\ pc' = "returned"
    /\ last' = [op |-> "build_rag_prompt", user_intent |-> last.query,
                examples |-> last.res.examples, k |-> last.k,
                res |-> [status |-> "ok",
                         prompt |-> build_rag_prompt(last.query, last.res.examples)]]
    /\ UNCHANGED <<index, retriever, translator, built, builder, threads>>

Done ==
    /\ pc = "returned"
    /\ last.res.status # "hang"
    /\ pc' = "idle"
    /\ last' = NoCall
    /\ UNCHANGED <<index, retriever, translator, built, builder, threads>>

Next ==
    \/ \E train_data \in Corpora, fault \in BuildFaults :
          build_vector_database(train_data, DefaultModel, fault)
    \/ RAGRetrieverInit(DefaultModel)
    \/ \E query \in Texts, k \in Ks : RetrieveTopK(query, k, "none")
    \/ \E query \in Texts, k \in Ks, fetch_k \in FetchKs, lambda_mult \in Weights :
          RetrieveMMR(query, k, fetch_k, lambda_mult, "none")
    \/ \E query \in Texts, k \in Ks, keyword_weight \in Weights :
          RetrieveHybrid(query, k, keyword_weight, "none")
    \/ Done

Spec == Init /\ [][Next]_vars

\* the same index used through a RAGTranslator
NextTranslator ==
    \/ \E train_data \in Corpora :
          build_vector_database(train_data, DefaultModel, "none")
    \/ \E retrieval_strategy \in Strategies, k \in Ks :
          RAGTranslatorInit(retrieval_strategy, k)
    \/ \E user_intent \in Texts : RetrieveExamples(user_intent, "none")
    \/ Done

SpecTranslator == Init /\ [][NextTranslator]_vars

\* a RAGTranslator whose embedding model or index fails during a retrieval
NextFaults ==
    \/ \E train_data \in FullCorpora :
          build_vector_database(train_data, DefaultModel, "none")
    \/ \E retrieval_strategy \in Strategies, k \in 1..MaxK :
          RAGTranslatorInit(retrieval_strategy, k)
    \/ \E user_intent \in Texts, fault \in RetrievalFaults :
          RetrieveExamples(user_intent, fault)
    \/ Done

SpecFaults == Init /\ [][NextFaults]_vars

RebuildCorpora == UNION {[1..n -> Records] : n \in 0..MaxRebuild}

\* a build script that runs while a reader process opens and queries
NextRebuild ==
    \/ \E train_data \in RebuildCorpora : BuildEmbed(train_data, DefaultModel)
    \/ BuildDelete
    \/ BuildCreate
    \/ BuildAdd
    \/ RAGRetrieverInit(DefaultModel)
    \/ \E query \in Texts, k \in 1..MaxK : RetrieveTopK(query, k, "none")
    \/ Done

SpecRebuild == Init /\ [][NextRebuild]_vars

\* one retriever, opened on a built index, that several threads call
InitReaders ==
    /\ \E train_data \in FullCorpora :
          /\ index = [exists |-> TRUE, entries |-> Entries(train_data, DefaultModel)]
          /\ built = [done |-> TRUE, train_data |-> train_data,
                      embedding_model |-> DefaultModel]
    /\ retriever = Handle(DefaultModel)
    /\ translator = NoTranslator
    /\ pc = "idle"
    /\ last = NoCall
    /\ builder = NoBuild
    /\ threads = [calls |-> [t \in Readers |-> IdleCall],
                  lists |-> [t \in Readers |-> <<>>]]

NextReaders ==
    \/ \E t \in Readers, op \in {"retrieve_top_k", "retrieve_mmr", "retrieve_hybrid"},
          query \in Texts, k \in 1..MaxK : CallFetch(t, op, query, k)
    \/ \E t \in Readers : CallScore(t)
    \/ \E t \in Readers : CallRank(t)
    \/ \E t \in Readers : CallReturn(t)

SpecReaders == InitReaders /\ [][NextReaders]_vars

\* corpora whose records carry the Intent documents: the texts and the
\* documents taken in turn from each pair of starting points
PayloadCorpora ==
    {[i \in 1..MaxCorpus |->
         [user_intent   |-> TextList[((s + i) % Len(TextList)) + 1],
          tmf921_intent |-> IntentDocs[((d + i) % Len(IntentDocs)) + 1]]] :
       s \in 1..Len(TextList), d \in 1..Len(IntentDocs)}

\* builds of these corpora and retrievals under the three strategies
NextPayload ==
    \/ \E train_data \in PayloadCorpora :
          build_vector_database(train_data, DefaultModel, "none")
    \/ RAGRetrieverInit(DefaultModel)
    \/ \E query \in Texts, k \in 1..MaxK : RetrieveTopK(query, k, "none")
    \/ \E query \in Texts, k \in 1..MaxK :
          RetrieveMMR(query, k, DefaultFetchK, DefaultLambdaMult, "none")
    \/ \E query \in Texts, k \in 1..MaxK :
          RetrieveHybrid(query, k, DefaultKeywordWeight, "none")
    \/ Done

SpecPayload == Init /\ [][NextPayload]_vars

\* builds followed by MMR retrievals only
NextMMR ==
    \/ \E train_data \in Corpora :
          build_vector_database(train_data, DefaultModel, "none")
    \/ RAGRetrieverInit(DefaultModel)
    \/ \E query \in Texts, k \in 1..MaxK, fetch_k \in FetchKs, lambda_mult \in Weights :
          RetrieveMMR(query, k, fetch_k, lambda_mult, "none")
    \/ Done

SpecMMR == Init /\ [][NextMMR]_vars

\* Builds alone, with and without a failing collaborator, and a retriever
\* opened on what they leave.
NextBuild ==
    \/ \E train_data \in Corpora, fault \in BuildFaults :
          build_vector_database(train_data, DefaultModel, fault)
    \/ RAGRetrieverInit(DefaultModel)
    \/ Done

SpecBuild == Init /\ [][NextBuild]_vars

\* Hybrid retrieval alone.
NextHybrid ==
    \/ \E train_data \in Corpora : build_vector_database(train_data, DefaultModel, "none")
    \/ RAGRetrieverInit(DefaultModel)
    \/ \E query \in Texts, k \in 1..MaxK, keyword_weight \in Weights :
          RetrieveHybrid(query, k, keyword_weight, "none")
    \/ Done

SpecHybrid == Init /\ [][NextHybrid]_vars

\* Retrieval from corpora of MaxPrompt records followed by the formatting of
\* the retrieved examples for the prompt.
NextPrompt ==
    \/ \E train_data \in PromptCorpora :
          build_vector_database(train_data, DefaultModel, "none")
    \/ RAGRetrieverInit(DefaultModel)
    \/ \E query \in Texts, k \in 1..MaxPrompt : RetrieveTopK(query, k, "none")
    \/ \E max_examples \in MaxExamples : FormatExamplesForPrompt(max_examples)
    \/ \E retrieval_strategy \in Strategies, k \in 1..MaxPrompt :
          RAGTranslatorInit(retrieval_strategy, k)
    \/ \E user_intent \in Texts : RetrieveExamples(user_intent, "none")
    \/ BuildRagPrompt
    \/ Done

SpecPrompt == Init /\ [][NextPrompt]_vars

\* builds and retrievers that are each given an embedding model
NextModels ==
    \/ \E train_data \in FullCorpora, embedding_model \in Models :
          build_vector_database(train_data, embedding_model, "none")
    \/ \E embedding_model \in Models : RAGRetrieverInit(embedding_model)
    \/ \E query \in Texts, k \in 1..MaxK : RetrieveTopK(query, k, "none")
    \/ Done

SpecModels == Init /\ [][NextModels]_vars

----------------------------------------------------------------------------
(* Properties *)

RetrievalOps == {"retrieve_top_k", "retrieve_mmr", "retrieve_hybrid"}

\* a retrieval call on an open retriever has just returned or raised
Retrieved ==
    pc = "returned" /\ last.op \in RetrievalOps /\ retriever.collection = "open"

CorpusSize == Len(index.entries)

Ids(examples) == [i \in 1..Len(examples) |-> examples[i].id]

\* C1: for every strategy and every k >= 1 the returned list has length
\* min(k, corpus size), and when k exceeds the corpus size the whole corpus
\* is returned without error.
C1_LengthIsMinKCorpus ==
    (Retrieved /\ last.k >= 1) =>
        /\ last.res.status = "ok" =>
              Len(last.res.examples) = Min(last.k, CorpusSize)
        /\ last.k > CorpusSize =>
              last.res.status = "ok" /\ Len(last.res.examples) = CorpusSize

\* C2: the list returned by retrieve_top_k is in ascending order of distance.
C2_TopKAscendingDistance ==
    (pc = "returned" /\ last.op = "retrieve_top_k" /\ last.res.status = "ok") =>
        \A i, j \in 1..Len(last.res.examples) :
            i < j => last.res.examples[i].distance <= last.res.examples[j].distance

\* retrieve_top_k returned entries in an order that is not their insertion order
C2_Witness ==
    /\ pc = "returned" /\ last.op = "retrieve_top_k" /\ last.res.status = "ok"
    /\ \E i, j \in 1..Len(last.res.examples) :
          /\ i < j
          /\ last.res.examples[i].distance < last.res.examples[j].distance
          /\ last.res.examples[i].id[2] > last.res.examples[j].id[2]

\* what retrieve_top_k returns for the query and k of the last call
TopKOfLast == retrieve_top_k(index, retriever, last.query, last.k, "none")

\* twice the cosine similarity of an exemplar to the query of the last call
Relevance(example) == CosineSimilarity(Encode(last.query), Encode(example.user_intent))

\* two exemplars that tie in relevance, by distance or by cosine similarity
EqualRelevance(a, b) == a.distance = b.distance \/ Relevance(a) = Relevance(b)

\* the query and every index entry have a non-zero embedding, so that every
\* cosine similarity of the call is a number
NonZeroEmbeddings ==
    /\ Encode(last.query).len > 0
    /\ \A i \in 1..CorpusSize : index.entries[i].embedding.len > 0

\* C4: retrieve_mmr with lambda_mult = 1.0 and fetch_k >= k returns the same
\* ordered list as retrieve_top_k with the same query and k, up to the order
\* among candidates of equal relevance (stated for the calls that return and
\* whose embeddings are all non-zero).
C4_MMRLambdaOneIsTopK ==
    (/\ Retrieved /\ last.op = "retrieve_mmr" /\ last.res.status = "ok"
     /\ last.lambda_mult = 10 /\ last.k >= 1 /\ last.fetch_k >= last.k
     /\ NonZeroEmbeddings) =>
        /\ TopKOfLast.status = "ok"
        /\ Len(last.res.examples) = Len(TopKOfLast.examples)
        /\ \A i \in 1..Len(last.res.examples) :
              \/ last.res.examples[i].id = TopKOfLast.examples[i].id
              \/ EqualRelevance(last.res.examples[i], TopKOfLast.examples[i])

\* C5: the list returned by retrieve_mmr never holds the same index entry
\* twice, for every lambda_mult.
C5_MMRNoDuplicateEntry ==
    (pc = "returned" /\ last.op = "retrieve_mmr" /\ last.res.status = "ok") =>
        \A i, j \in 1..Len(last.res.examples) :
            i # j => last.res.examples[i].id # last.res.examples[j].id

\* the greedy loop ran with lambda_mult = 0.0 and selected k >= 2 candidates
\* out of a larger pool
C5_Witness ==
    /\ Retrieved /\ last.op = "retrieve_mmr" /\ last.res.status = "ok"
    /\ last.lambda_mult = 0 /\ last.k >= 2
    /\ Len(last.res.examples) = last.k
    /\ Min(last.fetch_k, CorpusSize) > last.k

\* C6: retrieve_hybrid with keyword_weight = 0.0 returns the same ordered
\* list as retrieve_top_k with the same query and k.
C6_HybridWeightZeroIsTopK ==
    (Retrieved /\ last.op = "retrieve_hybrid" /\ last.keyword_weight = 0
     /\ last.k >= 1) =>
        /\ last.res.status = TopKOfLast.status
        /\ Ids(last.res.examples) = Ids(TopKOfLast.examples)

\* the position of an exemplar in the semantic ranking: distance, then
\* insertion order
SemanticBefore(a, b) ==
    a.distance < b.distance \/ (a.distance = b.distance /\ a.id[2] < b.id[2])

OverlapOfLast(example) == KeywordOverlap(Keywords(last.query), example.user_intent)

\* C7: retrieve_hybrid with keyword_weight = 1.0 returns its list in
\* descending order of keyword score, and exemplars of equal keyword score
\* in their semantic order.
C7_HybridWeightOneIsKeywordOrder ==
    (pc = "returned" /\ last.op = "retrieve_hybrid" /\ last.res.status = "ok"
     /\ last.keyword_weight = 10) =>
        \A i, j \in 1..Len(last.res.examples) :
            i < j =>
                LET a == last.res.examples[i]
                    b == last.res.examples[j]
                IN  /\ OverlapOfLast(a) >= OverlapOfLast(b)
                    /\ OverlapOfLast(a) = OverlapOfLast(b) => SemanticBefore(a, b)

\* the keyword score moved a farther exemplar ahead of a nearer one, and two
\* exemplars of equal keyword score were returned
C7_Witness ==
    /\ Retrieved /\ last.op = "retrieve_hybrid" /\ last.res.status = "ok"
    /\ last.keyword_weight = 10
    /\ \E i, j \in 1..Len(last.res.examples) :
          i < j /\ last.res.examples[i].distance > last.res.examples[j].distance
    /\ \E i, j \in 1..Len(last.res.examples) :
          i < j /\ OverlapOfLast(last.res.examples[i]) = OverlapOfLast(last.res.examples[j])

\* C8: retrieve_mmr called with fetch_k < k fails with an error and returns
\* no list (stated for an index that holds at least k entries).
C8_MMRFetchKBelowKFails ==
    (Retrieved /\ last.op = "retrieve_mmr" /\ last.fetch_k < last.k
     /\ CorpusSize >= last.k) =>
        last.res.status = "error" /\ last.res.examples = <<>>

\* C9: a retrieval with k <= 0 fails with an error under every strategy.
C9_NonPositiveKFails ==
    (Retrieved /\ last.k <= 0) => last.res.status = "error"

\* C10: retrieve_examples with a strategy name other than topk, mmr and
\* hybrid raises before any encode call or index query and returns no list.
C10_UnknownStrategyFailsFirst ==
    (pc = "returned" /\ last.op = "retrieve_examples"
     /\ last.strategy \notin {"topk", "mmr", "hybrid"}) =>
        /\ last.res.status = "error"
        /\ last.res.examples = <<>>
        /\ last.res.embeds = 0
        /\ last.res.queries = 0

\* a translator with an unknown strategy name was asked for examples on a
\* built, non-empty index
C10_Witness ==
    /\ pc = "returned" /\ last.op = "retrieve_examples"
    /\ last.strategy = "bm25" /\ last.k >= 1
    /\ translator.retriever.collection = "open" /\ CorpusSize >= 1
    /\ last.res.status = "error"

\* C11: retrieve_hybrid on a query with an empty token set (empty or
\* whitespace-only) scores every candidate's keyword part as 0 and returns a
\* ranked list normally; it does not fail.
C11_HybridEmptyQueryReturns ==
    (Retrieved /\ last.op = "retrieve_hybrid" /\ last.k >= 1
        /\ Keywords(last.query) = {}) =>
        /\ last.res.status = "ok"
        /\ Ids(last.res.examples) = Ids(Prefix(TopKOfLast.examples, last.k))

\* C12: building the index on an empty corpus fails with an error.
C12_EmptyCorpusBuildFails ==
    (pc = "returned" /\ last.op = "build" /\ last.n = 0) =>
        last.res.status = "error"

\* a build of an empty corpus in which no collaborator failed has raised
C12_Witness ==
    /\ pc = "returned" /\ last.op = "build" /\ last.n = 0
    /\ last.fault = "none" /\ last.res.status = "error"

\* a step in which a build call raises
BuildFailedStep ==
    pc = "idle" /\ pc' = "returned" /\ last'.op = "build"
        /\ last'.res.status = "error"

\* C13: index build is all-or-nothing: after a build that fails at any step
\* (empty corpus, embedding failure, failure while inserting) the persisted
\* index is exactly what it was before the build started (stated for builds
\* that start on a previously built, non-empty index).
C13_BuildAllOrNothing ==
    [][(BuildFailedStep /\ index.entries # <<>>) => index' = index]_vars

\* C15: no retrieval returns an exemplar list, and no retriever opens, before
\* an index build has completed: the attempt fails with an error.
C15_NoRetrievalBeforeBuild ==
    (pc = "returned" /\ last.op \in RetrievalOps \cup {"open"} /\ ~built.done) =>
        last.res.status = "error"

\* C16: payload round trip: every exemplar returned for a corpus record
\* carries a user_intent equal to the record's query text and a
\* tmf921_intent equal to the record's structured output.
C16_PayloadRoundTrip ==
    (pc = "returned" /\ last.op \in RetrievalOps /\ last.res.status = "ok") =>
        \A i \in 1..Len(last.res.examples) :
            LET example == last.res.examples[i]
                record == built.train_data[example.id[2] + 1]
            IN  /\ example.user_intent = record.user_intent
                /\ example.tmf921_intent = record.tmf921_intent

\* a retrieval returned both the record whose payload has escaped characters
\* and the record whose payload has nested lists and negative numbers
C16_Witness ==
    /\ pc = "returned" /\ last.op \in RetrievalOps /\ last.res.status = "ok"
    /\ \E i, j \in 1..Len(last.res.examples) :
          /\ last.res.examples[i].tmf921_intent = IntentDocs[1]
          /\ last.res.examples[j].tmf921_intent = IntentDocs[2]

\* a call of retrieve_examples with one of the three strategies has returned
\* or raised, on a translator whose retriever is open
ExamplesRetrieved ==
    /\ pc = "returned" /\ last.op = "retrieve_examples"
    /\ last.strategy \in {"topk", "mmr", "hybrid"}
    /\ translator.retriever.collection = "open"

\* C18: if the embedding call or the index query fails during a retrieval
\* under any strategy, the call fails with an error and returns no exemplar
\* list, neither a partial, an empty nor a substituted one.
C18_FailureIsExplicit ==
    (/\ ExamplesRetrieved
     /\ \/ last.fault \in {"encode", "query"}
        \/ last.fault = "reencode" /\ last.strategy = "mmr" /\ CorpusSize > last.k) =>
        /\ last.res.status = "error"
        /\ last.res.error \in {"EncodeError", "QueryError"}
        /\ last.res.examples = <<>>

\* the index query failed during a hybrid retrieval on an index with entries
C18_Witness ==
    /\ ExamplesRetrieved /\ last.fault = "query" /\ last.strategy = "hybrid"
    /\ CorpusSize >= 2 /\ last.res.error = "QueryError"

\* C20: on a transient failure of the embedding call during a retrieval the
\* embedding call site retries (makes at least a second attempt) within a
\* bounded number of attempts, the selection is not re-run, and the error
\* reaches the caller only after the attempts are exhausted.
C20_EncodeSiteRetries ==
    (ExamplesRetrieved /\ last.fault = "encode") =>
        /\ last.res.embeds >= 2
        /\ last.res.queries <= 1

\* C19: a stale index is detected and rejected: opening a retriever whose
\* embedding model differs from the one the index was built with fails, and
\* no query is served against that index.
C19_StaleIndexRejected ==
    (/\ pc = "returned" /\ last.op \in RetrievalOps \cup {"open"}
     /\ retriever.collection = "open" /\ index.entries # <<>>
     /\ retriever.embedder # built.embedding_model) =>
        last.res.status = "error"

\* the collection that a completed build of the corpus holds
IndexOf(train_data) ==
    [exists |-> TRUE, entries |-> Entries(train_data, DefaultModel)]

\* what a reader of the complete collection of the corpus gets
CompleteView(train_data, query, k) ==
    retrieve_top_k(IndexOf(train_data), Handle(DefaultModel), query, k, "none")

\* a step in which a reader's query returns or raises while a build of a
\* non-empty corpus that replaces a completed one is under way
QueryDuringRebuild ==
    /\ built.done /\ builder # NoBuild /\ builder.train_data # <<>>
    /\ pc = "idle" /\ pc' = "returned" /\ last'.op = "retrieve_top_k"

\* C14: while build_vector_database rebuilds an index, every reader query
\* observes either the complete old corpus or the complete new corpus, never
\* a missing collection, an empty collection or a partial mix.
C14_ReadersSeeOldOrNew ==
    [][QueryDuringRebuild =>
          \/ last'.res = CompleteView(built.train_data, last'.query, last'.k)
          \/ last'.res = CompleteView(builder.train_data, last'.query, last'.k)]_vars

\* what the call of thread t returns when it runs alone on the index
Alone(call) ==
    CASE call.op = "retrieve_top_k" ->
            retrieve_top_k(index, retriever, call.query, call.k, "none")
      [] call.op = "retrieve_mmr" ->
            retrieve_mmr(index, retriever, call.query, call.k, DefaultFetchK,
                         DefaultLambdaMult, "none")
      [] call.op = "retrieve_hybrid" ->
            retrieve_hybrid(index, retriever, call.query, call.k,
                            DefaultKeywordWeight, "none")

\* C17: retrieval calls interleaved on one built index leave the index
\* contents unchanged, and each call returns the list it would return if it
\* ran alone.
C17_InterleavedCallsAreIsolated ==
    /\ threads # NoThreads =>
          \A t \in Readers :
              threads.calls[t].pc = "done" =>
                  threads.calls[t].res = Alone(threads.calls[t])
    /\ built.done /\ builder = NoBuild /\ index.entries # <<>> =>
          index.entries = Entries(built.train_data, built.embedding_model)

\* a hybrid call has returned its re-ranked list while the other thread, in
\* a hybrid call with another query, has written its scores but not returned
C17_Witness ==
    /\ threads # NoThreads
    /\ threads.calls[1].pc = "done" /\ threads.calls[1].op = "retrieve_hybrid"
    /\ threads.calls[1].res.status = "ok" /\ Len(threads.calls[1].res.examples) >= 2
    /\ threads.calls[2].pc = "scored"
    /\ threads.calls[2].query # threads.calls[1].query

\* a call of retrieve_mmr on an open retriever has returned, raised or hung
MMRCalled == Retrieved /\ last.op = "retrieve_mmr"

\* the candidates that the call fetched, in nearest-neighbor order
PoolOfLast ==
    retrieve_top_k(index, retriever, last.query, last.fetch_k, "none").examples

\* C22: the MMR selection loop always terminates, for every pool, every k and
\* every lambda in [0,1], also when no unselected candidate has a score that
\* compares greater than the initial best score.
C22_MMRLoopTerminates ==
    MMRCalled => last.res.status # "hang"

\* C23: when the fetched pool has size <= k, retrieve_mmr returns the pool
\* unchanged, in nearest-neighbor order, with no candidate re-embedding and
\* no selection loop.
C23_SmallPoolReturnedUnchanged ==
    (MMRCalled /\ Len(PoolOfLast) <= last.k) =>
        /\ last.res.status = "ok"
        /\ last.res.examples = PoolOfLast
        /\ last.res.embeds = 1

\* retrieve_mmr was asked for more than its pool of two candidates, which
\* the greedy rule would have put in another order
C23_Witness ==
    /\ MMRCalled /\ Len(PoolOfLast) = 2 /\ last.k > 2
    /\ last.res.examples = PoolOfLast
    /\ PoolOfLast[1].distance < PoolOfLast[2].distance
    /\ Gt(Relevance(PoolOfLast[2]), Relevance(PoolOfLast[1]))

\* C29: retrieve_mmr with lambda_mult = 0.0 and a pool larger than k selects
\* the pool's nearest neighbor first.
C29_LambdaZeroStartsAtNearest ==
    (MMRCalled /\ last.lambda_mult = 0 /\ Len(PoolOfLast) > last.k
        /\ last.res.status = "ok") =>
        last.res.examples[1].id = PoolOfLast[1].id

\* the pool position of the exemplar returned at place j of the last call
SelectedAt(pool, j) ==
    CHOOSE i \in 1..Len(pool) : pool[i].id = last.res.examples[j].id

\* the pool positions selected before step j, in selection order
SelectedBefore(pool, j) == [m \in 1..(j - 1) |-> SelectedAt(pool, m)]

\* the MMR score of pool candidate i at step j of the last call
ScoreAt(pool, i, j) ==
    MMRScore(Encode(last.query),
             [c \in 1..Len(pool) |-> Encode(pool[c].user_intent)],
             SelectedBefore(pool, j), i, last.lambda_mult)

\* the selection loop of the last call ran and the call returned its list
MMRSelected ==
    MMRCalled /\ last.res.status = "ok" /\ Len(PoolOfLast) > last.k

GreedyOfLast ==
    MMRLoop(Encode(last.query),
            [c \in 1..Len(PoolOfLast) |-> Encode(PoolOfLast[c].user_intent)],
            <<>>, last.k, last.lambda_mult)

\* retrieve_mmr was called with k = fetch_k on a corpus of at least fetch_k
\* entries
MMRCalledWithEqualK ==
    MMRCalled /\ last.k = last.fetch_k /\ CorpusSize >= last.fetch_k

\* the query and every index entry have an embedding of length one, so that
\* every similarity is a number and the nearest entry is the most similar one
UnitEmbeddings ==
    /\ Encode(last.query).len = 1
    /\ \A i \in 1..CorpusSize : index.entries[i].embedding.len = 1

\* C24 as stated: when k = fetch_k (and the corpus has at least fetch_k
\* entries) retrieve_mmr returns the full pool in the order that the greedy
\* selection produces, not in nearest-neighbor order (stated for embeddings
\* of length one).
C24_EqualKIsGreedyOrder ==
    (MMRCalledWithEqualK /\ UnitEmbeddings) =>
        /\ last.res.status = "ok"
        /\ Ids(last.res.examples)
              = [j \in 1..Len(GreedyOfLast) |-> PoolOfLast[GreedyOfLast[j]].id]

\* C24 amended: when k = fetch_k (and the corpus has at least fetch_k
\* entries) retrieve_mmr returns the full pool unchanged, in nearest-neighbor
\* order; the greedy rule is not applied.
C24_EqualKIsNearestOrder ==
    MMRCalledWithEqualK =>
        /\ last.res.status = "ok"
        /\ Len(last.res.examples) = last.k
        /\ last.res.examples = PoolOfLast

\* k = fetch_k on a pool that the greedy rule would have put in another order
C24_Witness ==
    /\ MMRCalledWithEqualK /\ last.res.examples = PoolOfLast
    /\ UnitEmbeddings
    /\ GreedyOfLast # [j \in 1..Len(PoolOfLast) |-> j]

\* what retrieve_mmr returns for the inputs of the last call and k + 1
MMROfNextK ==
    retrieve_mmr(index, retriever, last.query, last.k + 1, last.fetch_k,
                 last.lambda_mult, "none")

\* retrieve_mmr returned a list, and returns one for k + 1 as well
MMRReturnedForBoth ==
    MMRCalled /\ last.res.status = "ok" /\ MMROfNextK.status = "ok"

\* C30 as stated: the list returned by retrieve_mmr for k is a prefix of the
\* list returned for k + 1, for every k with k + 1 <= pool size (stated for
\* embeddings of length one).
C30_PrefixUpToPoolSize ==
    (MMRReturnedForBoth /\ UnitEmbeddings /\ last.k + 1 <= Len(PoolOfLast)) =>
        Ids(last.res.examples) = Ids(Prefix(MMROfNextK.examples, last.k))

\* C30 amended: the list returned by retrieve_mmr for k is a prefix of the
\* list returned for k + 1, for every k with k + 1 < pool size.
C30_PrefixBelowPoolSize ==
    (MMRReturnedForBoth /\ last.k + 1 < Len(PoolOfLast)) =>
        Ids(last.res.examples) = Ids(Prefix(MMROfNextK.examples, last.k))

\* both lists come from the selection loop, and the first selected exemplar
\* is not the nearest neighbor
C30_Witness ==
    /\ MMRReturnedForBoth /\ last.k + 1 < Len(PoolOfLast)
    /\ Len(MMROfNextK.examples) = last.k + 1
    /\ last.res.examples[1].id # PoolOfLast[1].id

----------------------------------------------------------------------------
(* C25: the ranking of retrieve_hybrid *)

HybridReturned == Retrieved /\ last.op = "retrieve_hybrid" /\ last.res.status = "ok"

\* the 2k semantically nearest candidates of the last call, nearest first
HybridPoolOfLast == retrieve_top_k(index, retriever, last.query, last.k * 2, "none").examples

\* position in the pool of the returned example j
HybridPoolPos(pool, j) ==
    CHOOSE p \in 1..Len(pool) : pool[p].id = last.res.examples[j].id

\* combined score of pool position p, computed from the claim's formula
HybridScoreAt(pool, p) == CombinedScore(pool[p], Keywords(last.query), last.keyword_weight)

\* pool position p ranks before pool position q: greater combined score, or
\* an equal one and the smaller distance rank
RanksBefore(pool, p, q) ==
    LET a == HybridScoreAt(pool, p)
        b == HybridScoreAt(pool, q)
    IN  \/ a.num * b.den > b.num * a.den
        \/ a.num * b.den = b.num * a.den /\ p < q

\* C25: retrieve_hybrid returns exactly the first k elements of the 2k
\* semantically nearest candidates sorted in descending order of combined
\* score, candidates of equal score keeping their ascending-distance order;
\* no entry outside the 2k nearest is returned.
C25_HybridTopKOfSortedPool ==
    HybridReturned =>
        LET pool == HybridPoolOfLast
            out  == last.res.examples
            n    == IF Len(pool) < last.k THEN Len(pool) ELSE last.k
            pos  == [j \in 1..Len(out) |-> HybridPoolPos(pool, j)]
        IN  /\ Len(out) = n
            /\ \A j \in 1..n : \E p \in 1..Len(pool) : pool[p].id = out[j].id
            /\ \A j \in 1..n :
                  /\ out[j].user_intent = pool[pos[j]].user_intent
                  /\ out[j].tmf921_intent = pool[pos[j]].tmf921_intent
                  /\ out[j].distance = pool[pos[j]].distance
            /\ \A i, j \in 1..n : i < j => RanksBefore(pool, pos[i], pos[j])
            /\ \A q \in 1..Len(pool) :
                  (\A j \in 1..n : pos[j] # q) =>
                      \A j \in 1..n : RanksBefore(pool, pos[j], q)

\* a call that left out a pool candidate, returned first a candidate that is
\* not the nearest one, and returned two candidates of equal combined score
C25_Witness ==
    /\ HybridReturned /\ last.k = 2
    /\ LET pool == HybridPoolOfLast
           a == HybridScoreAt(pool, HybridPoolPos(pool, 1))
           b == HybridScoreAt(pool, HybridPoolPos(pool, 2))
       IN  /\ Len(pool) > last.k
           /\ HybridPoolPos(pool, 1) # 1
           /\ a.num * b.den = b.num * a.den

----------------------------------------------------------------------------
(* C26, C27: what a build leaves in the persisted index *)

\* a step in which build_vector_database raises out of create_embeddings
EmbeddingFailedStep ==
    pc = "idle" /\ pc' = "returned" /\ last'.op = "build" /\ last'.fault = "encode"

\* C26: if embedding the corpus fails during build_vector_database, the
\* build stops before any mutation of the persisted index: the existing
\* collection is not deleted, no new collection is created and no entry is
\* inserted.
C26_EmbeddingFailureLeavesIndex ==
    [][EmbeddingFailedStep =>
          /\ last'.res.status = "error"
          /\ index' = index
          /\ retriever' = retriever]_vars

\* a build of a non-empty corpus failed at the embedding while an earlier
\* collection with entries was in place; a retriever opened on that
\* collection is still valid
C26_Witness ==
    /\ pc = "returned" /\ last.op = "build" /\ last.fault = "encode"
    /\ last.n > 0
    /\ index.exists /\ index.entries # <<>>
    /\ retriever.collection = "open"

BuildSucceeded == pc = "returned" /\ last.op = "build" /\ last.res.status = "ok"

\* C27: after a successful build over a corpus of n records the index holds
\* exactly n entries with pairwise distinct identifiers, one per record,
\* duplicates included, entry i carrying record i's query text, output and
\* embedding; no entry of a previously built corpus remains.
C27_IndexIsExactlyTheCorpus ==
    BuildSucceeded =>
        LET train_data == built.train_data
        IN  /\ Len(train_data) = last.n
            /\ index.exists
            /\ Len(index.entries) = last.n
            /\ \A i, j \in 1..Len(index.entries) :
                  index.entries[i].id = index.entries[j].id => i = j
            /\ \A i \in 1..Len(index.entries) :
                  LET entry == index.entries[i]
                  IN  /\ entry.document = train_data[i].user_intent
                      /\ entry.metadata.user_intent = train_data[i].user_intent
                      /\ Loaded[entry.metadata.tmf921_intent] = train_data[i].tmf921_intent
                      /\ entry.embedding =
                            EncodeWith(built.embedding_model, train_data[i].user_intent)

\* a successful build over a corpus that holds the same record twice, which
\* replaced a collection a retriever had been opened on
C27_Witness ==
    /\ BuildSucceeded /\ last.n = MaxCorpus
    /\ retriever.collection = "stale"
    /\ built.train_data[1] = built.train_data[2]
    /\ built.train_data[3] # built.train_data[1]
    /\ Len(index.entries) = MaxCorpus

----------------------------------------------------------------------------
(* C28: the exemplar blocks of a prompt *)

RECURSIVE SplitLines(_)
\* the lines of a text
SplitLines(str) ==
    IF \A p \in 1..Len(str) : str[p] # "\n" THEN <<str>>
    ELSE LET p == CHOOSE q \in 1..Len(str) :
                      str[q] = "\n" /\ \A r \in 1..(q - 1) : str[r] # "\n"
         IN  <<SubSeq(str, 1, p - 1)>> \o SplitLines(SubSeq(str, p + 1, Len(str)))

RECURSIVE NumberOf(_)
\* the number written with the given decimal digits
NumberOf(digits) ==
    IF digits = <<>> THEN 0
    ELSE NumberOf(SubSeq(digits, 1, Len(digits) - 1)) * 10
            + DigitValue(digits[Len(digits)])

\* the exemplar blocks of a text in the order they are written: the number
\* in each header line (a line that starts with `header`, its number followed
\* by one more character) and the user intent of the line after it
BlocksOf(str, header) ==
    LET lines == SplitLines(str)
        headers == {h \in 1..Len(lines) : lines[h] # <<>> /\ lines[h][1] = header}
        nth(j) == CHOOSE h \in headers : Cardinality({g \in headers : g <= h}) = j
    IN  [j \in 1..Cardinality(headers) |->
            [number |-> NumberOf(SubSeq(lines[nth(j)], 2, Len(lines[nth(j)]) - 1)),
             user_intent |->
                 IF nth(j) < Len(lines) /\ lines[nth(j) + 1] # <<>>
                    /\ lines[nth(j) + 1][1] = "User Intent: "
                 THEN Tail(lines[nth(j) + 1]) ELSE <<"?">>]]

\* blocks numbered from 1 for the first min(len(examples), n) examples
PrefixBlocks(examples, n) ==
    [j \in 1..Min(Len(examples), n) |->
        [number |-> j, user_intent |-> examples[j].user_intent]]

\* C28: format_examples_for_prompt(examples, max_examples) emits exactly
\* min(len(examples), max_examples) exemplar blocks, numbered from 1 in list
\* order; build_rag_prompt emits exactly min(len(examples), 3) blocks
\* regardless of the configured k.
C28_PromptBlocksArePrefix ==
    /\ (pc = "returned" /\ last.op = "format_examples_for_prompt") =>
          BlocksOf(last.res.text, "Example ")
              = PrefixBlocks(last.examples, last.max_examples)
    /\ (pc = "returned" /\ last.op = "build_rag_prompt") =>
          BlocksOf(last.res.prompt.user_prompt, "--- Example ")
              = PrefixBlocks(last.examples, PromptExamples)

============================================================================
